---- MODULE Spec2Model ----
(***************************************************************************)
(* ConnectWise <-> PagerDuty bridge (cwmi2015/CW-PD).                      *)
(*                                                                         *)
(* Spec     : the ticketing webhook handler (routes/connectwise.js) and    *)
(*            createIncident / getIncidentByKey / updateIncident           *)
(*            (services/pagerdutyService.js, strict variant), run by       *)
(*            concurrent requests on one Node.js event loop.               *)
(* SpecPD   : the alerting webhook handler (routes/pagerduty.js).          *)
(* SpecSig  : verifyPagerDutySignature as a function of header, body and   *)
(*            secret.                                                      *)
(*                                                                         *)
(* Every `await` of the source is a suspension point: the step before it   *)
(* sends the request, a step of the remote system answers it, and a later  *)
(* step resumes the caller with the answer.                                *)
(***************************************************************************)
EXTENDS Integers, Sequences, FiniteSets, TLC

VARIABLES
    variant,        \* which revision of routes/connectwise.js is deployed
    incidents,      \* PagerDuty: the incidents that exist remotely
    incidentLock,   \* pagerdutyService.js: const incidentLock = new Set()
    req,            \* one record per concurrent request (webhook or direct call)
    overlap,        \* history: keys for which two createIncident calls overlapped
    lookupErr,      \* history: some getIncidentByKey swallowed a failure
    pd,             \* the alerting webhook request being handled
    cwCalls,        \* ConnectWise: updateTicket / addTicketNote calls received
    lastWebhookEvent, \* routes/pagerduty.js: let lastWebhookEvent
    delivered,      \* number of alerting webhooks delivered so far
    sig,            \* input and result of one verifyPagerDutySignature call
    ci              \* input and result of the synchronous code of one createIncident

vars == <<variant, incidents, incidentLock, req, overlap, lookupErr,
          pd, cwCalls, lastWebhookEvent, delivered, sig, ci>>

cwVars == <<variant, incidents, incidentLock, req, overlap, lookupErr>>
pdVars == <<pd, cwCalls, lastWebhookEvent, delivered>>

-----------------------------------------------------------------------------
(* Tables of routes/connectwise.js                                         *)

\* mutant: the Service Desk board is admitted as well
allowedBoards_serviceDesk ==
    {"Technical Support", "Security Operations Center", "Alerts", "Service Desk"}

allowedBoards == {"Technical Support", "Security Operations Center", "Alerts"}

TRIGGER_STATUSES ==
    {"New", "Re-Opened", "Detection: Waiting IRT Assignment",
     "Detection: Augmentt", "Detection: Nodeware", "New (email connector)",
     "New (Portal)", "New (Chat)"}

RESOLVE_STATUSES ==
    {"Cancelled", "Cancelled: Duplicate", "Cancelled: Child Ticket",
     "Cancelled: Self Resolved", "Completed: Resolved",
     "Completed: No Reply (Client)", "Completed: Do Not Notify",
     "Returned To Normal", "Completed: Marked by Client",
     "Completed: No Response", "Chat Abandoned"}

-----------------------------------------------------------------------------
(* Text.  A summary is a sequence of words; a title is a sequence of       *)
(* tokens.  toLowerCase is a table over the words and names in use.        *)

LowerTable ==
    [w \in {"Issue", "via", "VIA", "Critical", "critical", "Non", "outage",
            "printer", "broken", "Technical", "Support",
            "1a - Emergency", "1B - EMERGENCY", "2a - Critical", "3 - High",
            "4a - Normal", "10a - Maintenance", "2c - Critical",
            "4b - Normal", ""} |->
        CASE w = "Issue" -> "issue"
          [] w = "VIA" -> "via"
          [] w = "Critical" -> "critical"
          [] w = "Non" -> "non"
          [] w = "Technical" -> "technical"
          [] w = "Support" -> "support"
          [] w = "1a - Emergency" -> "1a - emergency"
          [] w = "1B - EMERGENCY" -> "1b - emergency"
          [] w = "2a - Critical" -> "2a - critical"
          [] w = "3 - High" -> "3 - high"
          [] w = "4a - Normal" -> "4a - normal"
          [] w = "10a - Maintenance" -> "10a - maintenance"
          [] w = "2c - Critical" -> "2c - critical"
          [] w = "4b - Normal" -> "4b - normal"
          [] OTHER -> w]

toLowerCase(w) == IF w \in DOMAIN LowerTable THEN LowerTable[w] ELSE w

LowerSeq(s) == [i \in 1..Len(s) |-> toLowerCase(s[i])]

allowedKeywords ==
    {<<"via", "critical">>, <<"via", "non", "critical">>,
     <<"via", "technical", "support">>}

\* new RegExp(kw, "i").test(summary): kw occurs in summary, case ignored
RegExpTestI(kw, summary) ==
    \E i \in 1..Len(summary) :
        /\ i + Len(kw) - 1 <= Len(summary)
        /\ SubSeq(LowerSeq(summary), i, i + Len(kw) - 1) = LowerSeq(kw)

containsAllowed(summary) == \E kw \in allowedKeywords : RegExpTestI(kw, summary)

-----------------------------------------------------------------------------
(* Values                                                                  *)

NoIncident == [id |-> 0, key |-> <<>>, status |-> "none"]

NoTicket ==
    [id |-> "", board |-> "", status |-> "", summary |-> <<>>,
     priority |-> "", description |-> ""]

Ticket(id, board, status, summary, priority) ==
    [id |-> id, board |-> board, status |-> status, summary |-> summary,
     priority |-> priority, description |-> ""]

\* const incidentKey = `CW-${ticket.id}`
incidentKey(ticket) == <<"CW-", ticket.id>>

NoReply == [st |-> "none", inc |-> NoIncident]
Pending == [st |-> "pending", inc |-> NoIncident]

NoPayload == [title |-> <<>>, urgency |-> "", incident_key |-> <<>>,
              service |-> "", priority |-> ""]

-----------------------------------------------------------------------------
(* Environment (process.env) of services/pagerdutyService.js               *)

PD_SERVICE_TS == "svc-ts"
PD_SERVICE_SOC == "svc-soc"
PD_SERVICE_NOC == "svc-noc"
PD_PRIORITY_P1 == "prio-p1"
PD_PRIORITY_P2 == "prio-p2"
PD_PRIORITY_P3 == "prio-p3"
PD_PRIORITY_P4 == "prio-p4"
PD_PRIORITY_P5 == "prio-p5"

-----------------------------------------------------------------------------
(* createIncident, strict variant: the synchronous code between the        *)
(* re-check and the create request.                                        *)

\* board -> service; "" when the board is not mapped (throw new Error)
ServiceOfBoard(board) ==
    CASE board = "Technical Support" -> PD_SERVICE_TS
      [] board = "Security Operations Center" -> PD_SERVICE_SOC
      [] board = "Alerts" -> PD_SERVICE_NOC
      [] OTHER -> ""

\* mutant: the keyword gate is applied on every board
KeywordSkip_everyBoard(ticket) == ~containsAllowed(ticket.summary)

\* the Technical Support keyword gate: TRUE when the ticket is skipped
KeywordSkip(ticket) ==
    /\ ticket.board = "Technical Support"
    /\ ~containsAllowed(ticket.summary)

\* priority handling; code "" is priorityCode = null (ticket skipped)
StrictPriority(priorityName) ==
    LET p == toLowerCase(priorityName) IN
    CASE p \in {"1a - emergency", "1b - emergency"} ->
            [id |-> PD_PRIORITY_P1, urgency |-> "high", code |-> "P1"]
      [] p \in {"2a - critical", "2b - critical", "2c - critical"} ->
            [id |-> PD_PRIORITY_P2, urgency |-> "high", code |-> "P2"]
      [] p \in {"3 - high"} ->
            [id |-> PD_PRIORITY_P3, urgency |-> "high", code |-> "P3"]
      [] OTHER -> [id |-> "", urgency |-> "low", code |-> ""]

\* (ticket.summary || "No summary").replace(/\s+/g, " ").trim()
summaryClean(summary) == IF summary = <<>> THEN <<"No", "summary">> ELSE summary

\* mutant: the title carries the ticket id without the "#" marker
Title_noMarker(code, id, summary) == <<code, "|", id, "-">> \o summaryClean(summary)

\* `${priorityCode} | #${ticket.id} - ${summaryClean}`
Title(code, id, summary) == <<code, "|", "#", id, "-">> \o summaryClean(summary)

CreatePayload(ticket) ==
    [title |-> Title(StrictPriority(ticket.priority).code, ticket.id, ticket.summary),
     urgency |-> StrictPriority(ticket.priority).urgency,
     incident_key |-> incidentKey(ticket),
     service |-> ServiceOfBoard(ticket.board),
     priority |-> StrictPriority(ticket.priority).id]

\* what the synchronous code after an empty re-check decides
Admission(ticket) ==
    IF KeywordSkip(ticket) THEN "null"
    ELSE IF ServiceOfBoard(ticket.board) = "" THEN "throw"
    ELSE IF StrictPriority(ticket.priority).code = "" THEN "null"
    ELSE "create"

-----------------------------------------------------------------------------
(* createIncident, admit-all variant (the earlier revision kept in the     *)
(* same file): no guard, no keyword gate, every priority admitted.         *)

\* mutant: the priority name is compared as it is written
AdmitAllPriority_asWritten(priorityName) ==
    CASE priorityName \in {"1a - emergency", "1b - emergency"} ->
            [id |-> PD_PRIORITY_P1, urgency |-> "high", code |-> "P1"]
      [] priorityName \in {"2a - critical", "2b - critical", "2c - critical"} ->
            [id |-> PD_PRIORITY_P2, urgency |-> "high", code |-> "P2"]
      [] priorityName \in {"3 - high"} ->
            [id |-> PD_PRIORITY_P3, urgency |-> "high", code |-> "P3"]
      [] priorityName \in {"4a - normal", "4b - normal", "4c - normal"} ->
            [id |-> PD_PRIORITY_P4, urgency |-> "low", code |-> "P4"]
      [] OTHER -> [id |-> PD_PRIORITY_P5, urgency |-> "low", code |-> "P5"]

\* priority handling with the defaults P5 / "low"
AdmitAllPriority(priorityName) ==
    LET p == toLowerCase(priorityName) IN
    CASE p \in {"1a - emergency", "1b - emergency"} ->
            [id |-> PD_PRIORITY_P1, urgency |-> "high", code |-> "P1"]
      [] p \in {"2a - critical", "2b - critical", "2c - critical"} ->
            [id |-> PD_PRIORITY_P2, urgency |-> "high", code |-> "P2"]
      [] p \in {"3 - high"} ->
            [id |-> PD_PRIORITY_P3, urgency |-> "high", code |-> "P3"]
      [] p \in {"4a - normal", "4b - normal", "4c - normal"} ->
            [id |-> PD_PRIORITY_P4, urgency |-> "low", code |-> "P4"]
      [] OTHER -> [id |-> PD_PRIORITY_P5, urgency |-> "low", code |-> "P5"]

AdmitAllPayload(ticket) ==
    [title |-> Title(AdmitAllPriority(ticket.priority).code, ticket.id, ticket.summary),
     urgency |-> AdmitAllPriority(ticket.priority).urgency,
     incident_key |-> incidentKey(ticket),
     service |-> ServiceOfBoard(ticket.board),
     priority |-> AdmitAllPriority(ticket.priority).id]

\* the only way out before the create request is the unmapped board
AdmitAllAdmission(ticket) ==
    IF ServiceOfBoard(ticket.board) = "" THEN "throw" ELSE "create"

\* mutant: the re-check result is ignored
RecheckFound_ignored(reply) == FALSE

\* if (existing) return existing
RecheckFound(reply) == reply.st = "ok" /\ reply.inc.id # 0

\* mutant: the early `return null` paths leave without the finally block
Unlock_skipLeaks(lock, key, outcome) ==
    IF outcome = "null" THEN lock ELSE lock \ {key}

\* finally { incidentLock.delete(incidentKey) }
Unlock(lock, key, outcome) == lock \ {key}


-----------------------------------------------------------------------------
(* Requests of the ticketing side                                          *)

Requests == {"r1", "r2"}

Summary_kw == <<"Issue", "via", "Critical", "outage">>
Summary_plain == <<"printer", "broken">>

T_ok == Ticket("42", "Technical Support", "New", Summary_kw, "1a - Emergency")
T_nokw == Ticket("42", "Technical Support", "New", Summary_plain, "1a - Emergency")
T_low == Ticket("42", "Alerts", "Re-Opened", Summary_plain, "4a - Normal")
T_res == Ticket("42", "Security Operations Center", "Completed: Resolved",
                Summary_plain, "2a - Critical")
T_unm == Ticket("42", "Alerts", "In Progress", <<"VIA", "critical">>, "3 - High")
T_board == Ticket("42", "Service Desk", "New", Summary_kw, "4a - Normal")
T_noid == Ticket("", "Alerts", "New", Summary_plain, "1a - Emergency")
T_other == Ticket("7", "Alerts", "New", <<>>, "1B - EMERGENCY")

\* bodies a ticketing webhook can carry
WebhookEvents ==
    {[type |-> "ticket", parse |-> "ok", ticket |-> t] :
        t \in {T_ok, T_nokw, T_low, T_res, T_unm, T_board, T_noid, T_other}}
    \cup {[type |-> "other", parse |-> "ok", ticket |-> T_ok],
          [type |-> "ticket", parse |-> "ok", ticket |-> NoTicket],
          [type |-> "ticket", parse |-> "bad", ticket |-> NoTicket]}

\* tickets other callers pass to the exported createIncident
DirectTickets == {T_ok, T_nokw, T_board}

Descriptions == {"", "Initial description"}

IdleReq ==
    [pc |-> "idle", kind |-> "none", ticket |-> NoTicket, status |-> "",
     branch |-> "none", existing |-> NoIncident, reply |-> NoReply,
     locked |-> FALSE, waited |-> 0, recheck |-> NoReply,
     payload |-> NoPayload, creates |-> 0, noteReqs |-> 0, updates |-> 0,
     lookups |-> 0, rechecks |-> 0, incident |-> NoIncident,
     ret |-> "none", retInc |-> NoIncident, resp |-> 0,
     evtype |-> "", descReqs |-> 0, look1 |-> NoReply, look2 |-> NoReply,
     upd |-> [id |-> 0, status |-> ""], failures |-> {}]

\* a createIncident call is in progress for the request
InCreate(r) == r.pc \in {"ci_wait", "ci_recheck", "ci_create", "ci_note"}

\* res.status(code).json(...)
Respond(r, code) == [r EXCEPT !.pc = "done", !.resp = code]

-----------------------------------------------------------------------------
(* createIncident (strict variant)                                         *)

\* what the caller does with the result of `await createIncident(ticket)`
AfterCreate(r, outcome, inc) ==
    LET r1 == [r EXCEPT !.ret = outcome, !.retInc = inc] IN
    IF r.kind = "direct" THEN [r1 EXCEPT !.pc = "done"]
    ELSE IF outcome = "throw" THEN Respond(r1, 500)
    \* log(`... ${newIncident.id}`) dereferences the result
    ELSE IF outcome = "null" /\ (r.branch = "reopen" \/ variant = "retry")
        THEN Respond(r1, 500)
    ELSE Respond(r1, 200)

\* entry of createIncident up to its first await
CI_Begin(self, r) ==
    LET key == incidentKey(r.ticket) IN
    /\ IF key \in incidentLock
         THEN /\ req' = [req EXCEPT ![self] =
                            [r EXCEPT !.pc = "ci_wait", !.waited = @ + 1]]
              /\ UNCHANGED incidentLock
         ELSE /\ incidentLock' = incidentLock \cup {key}
              /\ req' = [req EXCEPT ![self] =
                            [r EXCEPT !.pc = "ci_recheck", !.reply = Pending,
                                      !.locked = TRUE, !.rechecks = @ + 1]]
    /\ overlap' = IF \E o \in Requests \ {self} :
                        InCreate(req[o]) /\ incidentKey(req[o].ticket) = key
                  THEN overlap \cup {key} ELSE overlap

\* return / throw of createIncident: the finally block, then the caller
CI_End(self, r, outcome, inc) ==
    /\ incidentLock' = Unlock(incidentLock, incidentKey(r.ticket), outcome)
    /\ req' = [req EXCEPT ![self] = AfterCreate(r, outcome, inc)]

\* another caller invokes the exported createIncident
CallCreateIncident(self) ==
    /\ req[self].pc = "idle"
    /\ \E t \in DirectTickets, d \in Descriptions :
          CI_Begin(self, [req[self] EXCEPT !.kind = "direct", !.branch = "create",
                             !.ticket = [t EXCEPT !.description = d]])
    /\ UNCHANGED <<pdVars, sig, ci, variant, incidents, lookupErr>>

\* mutant: the wait is repeated for as long as the key is in the guard
CI_WaitDone_untilReleased(self) ==
    /\ req[self].pc = "ci_wait"
    /\ req' = IF incidentKey(req[self].ticket) \in incidentLock
                THEN [req EXCEPT ![self].waited = @ + 1]
                ELSE [req EXCEPT ![self].pc = "ci_recheck",
                                 ![self].reply = Pending,
                                 ![self].rechecks = @ + 1]
    /\ UNCHANGED <<pdVars, sig, ci, variant, incidents, incidentLock, overlap, lookupErr>>

\* setTimeout(resolve, 2000) fires; then getIncidentByKey is called
CI_WaitDone(self) ==
    /\ req[self].pc = "ci_wait"
    /\ req' = [req EXCEPT ![self].pc = "ci_recheck", ![self].reply = Pending,
                          ![self].rechecks = @ + 1]
    /\ UNCHANGED <<pdVars, sig, ci, variant, incidents, incidentLock, overlap, lookupErr>>

\* PagerDuty answers GET /incidents?incident_key=..&limit=1; getIncidentByKey
\* turns a failure into null
PD_Lookup(self) ==
    /\ req[self].pc \in {"lookup1", "lookup2", "ci_recheck"}
    /\ req[self].reply = Pending
    /\ LET matches == {i \in incidents : i.key = incidentKey(req[self].ticket)} IN
       \* response.data.incidents?.[0] || null
       \/ /\ \E i \in matches :
                req' = [req EXCEPT ![self].reply = [st |-> "ok", inc |-> i]]
          /\ UNCHANGED lookupErr
       \/ /\ matches = {}
          /\ req' = [req EXCEPT ![self].reply = [st |-> "ok", inc |-> NoIncident]]
          /\ UNCHANGED lookupErr
       \* catch (err) { ...; return null }
       \/ /\ req' = [req EXCEPT ![self].reply = [st |-> "ok", inc |-> NoIncident],
                                ![self].failures = @ \cup {"lookup"}]
          /\ lookupErr' = TRUE
    /\ UNCHANGED <<pdVars, sig, ci, variant, incidents, incidentLock, overlap>>

\* the re-check returns: existing incident, skip, throw, or the create request
CI_Recheck(self) ==
    LET r == [req[self] EXCEPT !.recheck = req[self].reply, !.reply = NoReply] IN
    /\ req[self].pc = "ci_recheck"
    /\ req[self].reply.st = "ok"
    /\ IF RecheckFound(req[self].reply)
         THEN CI_End(self, r, "incident", req[self].reply.inc)
       ELSE IF Admission(r.ticket) = "create"
         THEN /\ req' = [req EXCEPT ![self] =
                    [r EXCEPT !.pc = "ci_create", !.reply = Pending,
                              !.payload = CreatePayload(r.ticket),
                              !.creates = @ + 1]]
              /\ UNCHANGED incidentLock
       ELSE CI_End(self, r, Admission(r.ticket), NoIncident)
    /\ UNCHANGED <<pdVars, sig, ci, variant, incidents, overlap, lookupErr>>

NextId == IF incidents = {} THEN 2
          ELSE 1 + CHOOSE m \in {i.id : i \in incidents} \cup {1} :
                      \A i \in incidents : i.id <= m

\* PagerDuty answers POST /incidents
PD_Create(self) ==
    /\ req[self].pc = "ci_create"
    /\ req[self].reply = Pending
    /\ \/ LET new == [id |-> NextId, key |-> req[self].payload.incident_key,
                      status |-> "triggered"] IN
          /\ incidents' = incidents \cup {new}
          /\ req' = [req EXCEPT ![self].reply = [st |-> "ok", inc |-> new]]
       \/ /\ \/ req' = [req EXCEPT ![self].reply = [st |-> "nobody", inc |-> NoIncident]]
             \/ req' = [req EXCEPT ![self].reply = [st |-> "err", inc |-> NoIncident],
                                   ![self].failures = @ \cup {"create"}]
          /\ UNCHANGED incidents
    /\ UNCHANGED <<pdVars, sig, ci, variant, incidentLock, overlap, lookupErr>>

\* the create request returns: throw, the note request, or return incident
CI_Created(self) ==
    LET r == [req[self] EXCEPT !.reply = NoReply] IN
    /\ req[self].pc = "ci_create"
    /\ req[self].reply.st \in {"ok", "err", "nobody"}
    /\ IF req[self].reply.st # "ok"
         THEN CI_End(self, r, "throw", NoIncident)
       ELSE IF r.ticket.description # ""
         THEN /\ req' = [req EXCEPT ![self] =
                    [r EXCEPT !.pc = "ci_note", !.reply = Pending,
                              !.incident = req[self].reply.inc,
                              !.noteReqs = @ + 1]]
              /\ UNCHANGED incidentLock
       ELSE CI_End(self, r, "incident", req[self].reply.inc)
    /\ UNCHANGED <<pdVars, sig, ci, variant, incidents, overlap, lookupErr>>

\* PagerDuty answers POST /incidents/{id}/notes
PD_Note(self) ==
    /\ req[self].pc = "ci_note"
    /\ req[self].reply = Pending
    /\ \/ req' = [req EXCEPT ![self].reply = [st |-> "ok", inc |-> NoIncident]]
       \/ req' = [req EXCEPT ![self].reply = [st |-> "err", inc |-> NoIncident],
                             ![self].failures = @ \cup {"note"}]
    /\ UNCHANGED <<pdVars, sig, ci, variant, incidents, incidentLock, overlap, lookupErr>>

\* the note request returns: return incident, or throw
CI_Noted(self) ==
    LET r == [req[self] EXCEPT !.reply = NoReply] IN
    /\ req[self].pc = "ci_note"
    /\ req[self].reply.st \in {"ok", "err"}
    /\ IF req[self].reply.st = "ok"
         THEN CI_End(self, r, "incident", r.incident)
         ELSE CI_End(self, r, "throw", NoIncident)
    /\ UNCHANGED <<pdVars, sig, ci, variant, incidents, overlap, lookupErr>>


-----------------------------------------------------------------------------
(* router.post("/webhook") of routes/connectwise.js                        *)

\* the request arrives; the synchronous code up to getTicketDescription
H_Receive(self) ==
    /\ req[self].pc = "idle"
    /\ \E ev \in WebhookEvents :
          LET r == [req[self] EXCEPT !.kind = "webhook", !.ticket = ev.ticket,
                                     !.evtype = IF ev.parse = "bad" THEN "unparsed"
                                                ELSE ev.type] IN
          req' = [req EXCEPT ![self] =
                    IF ev.parse = "bad" THEN Respond(r, 500)
                    ELSE IF ev.type # "ticket" THEN Respond(r, 200)
                    ELSE IF ev.ticket = NoTicket \/ ev.ticket.id = ""
                        THEN Respond(r, 400)
                    ELSE IF ev.ticket.board \notin allowedBoards
                        THEN Respond(r, 200)
                    ELSE [r EXCEPT !.pc = "desc", !.descReqs = @ + 1]]
    /\ UNCHANGED <<pdVars, sig, ci, variant, incidents, incidentLock, overlap, lookupErr>>

\* getTicketDescription returns (null on failure); the first lookup is sent
H_Desc(self) ==
    /\ req[self].pc = "desc"
    /\ LET r == [req[self] EXCEPT !.status = req[self].ticket.status,
                                  !.pc = "lookup1", !.reply = Pending,
                                  !.lookups = @ + 1] IN
       \* return note.text, or return null when no note is the description
       \/ \E d \in Descriptions :
             req' = [req EXCEPT ![self] = [r EXCEPT !.ticket.description = d]]
       \* catch (err) { ...; return null }
       \/ req' = [req EXCEPT ![self] =
                    [r EXCEPT !.failures = @ \cup {"description"}]]
    /\ UNCHANGED <<pdVars, sig, ci, variant, incidents, incidentLock, overlap, lookupErr>>

\* mutant: a ticket status of neither set resolves the incident
FoundBranch_resolveUnmapped(status, pdStatus) ==
    IF status \in TRIGGER_STATUSES
      THEN IF pdStatus = "resolved" THEN "reopen" ELSE "none"
    ELSE IF pdStatus # "resolved" THEN "resolve" ELSE "none"

\* the if / else-if chain on status and existingIncident.status
FoundBranch(status, pdStatus) ==
    IF status \in TRIGGER_STATUSES
      THEN IF pdStatus = "resolved" THEN "reopen" ELSE "none"
    ELSE IF status \in RESOLVE_STATUSES
      THEN IF pdStatus # "resolved" THEN "resolve" ELSE "none"
    ELSE "none"

\* the else branch: an incident was found for the key
H_Found(self, r0, inc) ==
    LET r == [r0 EXCEPT !.existing = inc, !.reply = NoReply] IN
    IF FoundBranch(r.status, inc.status) = "reopen"
      THEN CI_Begin(self, [r EXCEPT !.branch = "reopen"])
    ELSE /\ req' = [req EXCEPT ![self] =
                IF FoundBranch(r.status, inc.status) = "resolve"
                  \* updateIncident(existingIncident.id, "resolved")
                  THEN [r EXCEPT !.pc = "update", !.reply = Pending,
                                 !.updates = @ + 1,
                                 !.upd = [id |-> inc.id, status |-> "resolved"]]
                  ELSE Respond(r, 200)]
         /\ UNCHANGED <<incidentLock, overlap>>

\* nothing was found: createIncident(ticket)
H_NotFound(self, r0) ==
    CI_Begin(self, [r0 EXCEPT !.branch = "create", !.reply = NoReply])

\* mutant: no revision looks the key up a second time
RetriesLookup_never(v) == FALSE

\* if (!existingIncident) { await delay; existingIncident = await getIncidentByKey }
RetriesLookup(v) == v = "retry"

\* the first lookup returns
H_Lookup1(self) ==
    /\ req[self].pc = "lookup1"
    /\ req[self].reply.st = "ok"
    /\ LET r == [req[self] EXCEPT !.look1 = req[self].reply] IN
       IF r.reply.inc.id # 0
         THEN H_Found(self, r, r.reply.inc)
       ELSE IF RetriesLookup(variant)
         THEN /\ req' = [req EXCEPT ![self] =
                            [r EXCEPT !.pc = "delay", !.reply = NoReply]]
              /\ UNCHANGED <<incidentLock, overlap>>
       ELSE H_NotFound(self, r)
    /\ UNCHANGED <<pdVars, sig, ci, variant, incidents, lookupErr>>

\* the 2 second delay ends; the second lookup is sent
H_Delay(self) ==
    /\ req[self].pc = "delay"
    /\ req' = [req EXCEPT ![self].pc = "lookup2", ![self].reply = Pending,
                          ![self].lookups = @ + 1]
    /\ UNCHANGED <<pdVars, sig, ci, variant, incidents, incidentLock, overlap, lookupErr>>

\* the second lookup returns
H_Lookup2(self) ==
    /\ req[self].pc = "lookup2"
    /\ req[self].reply.st = "ok"
    /\ LET r == [req[self] EXCEPT !.look2 = req[self].reply] IN
       IF r.reply.inc.id # 0
         THEN H_Found(self, r, r.reply.inc)
         ELSE H_NotFound(self, r)
    /\ UNCHANGED <<pdVars, sig, ci, variant, incidents, lookupErr>>

\* PagerDuty answers PUT /incidents/{id}
PD_Update(self) ==
    /\ req[self].pc = "update"
    /\ req[self].reply = Pending
    /\ \/ /\ incidents' = {IF i.id = req[self].upd.id
                              THEN [i EXCEPT !.status = req[self].upd.status]
                              ELSE i : i \in incidents}
          /\ req' = [req EXCEPT ![self].reply = [st |-> "ok", inc |-> NoIncident]]
       \/ /\ req' = [req EXCEPT ![self].reply = [st |-> "err", inc |-> NoIncident],
                                ![self].failures = @ \cup {"update"}]
          /\ UNCHANGED incidents
    /\ UNCHANGED <<pdVars, sig, ci, variant, incidentLock, overlap, lookupErr>>

\* updateIncident returns or throws
H_Updated(self) ==
    /\ req[self].pc = "update"
    /\ req[self].reply.st \in {"ok", "err"}
    /\ req' = [req EXCEPT ![self] =
                 Respond([req[self] EXCEPT !.reply = NoReply],
                         IF req[self].reply.st = "ok" THEN 200 ELSE 500)]
    /\ UNCHANGED <<pdVars, sig, ci, variant, incidents, incidentLock, overlap, lookupErr>>

-----------------------------------------------------------------------------
(* routes/pagerduty.js: signature verification                             *)

PD_SECRET_TS == "sec-ts"
PD_SECRET_NOC == "sec-noc"
PD_SECRET_SOC == "sec-soc"
Undefined == "undefined"

Bodies == {"b1", "b2"}

\* crypto.createHmac("sha256", secret).update(rawBody).digest("hex"): one
\* digest per (body, secret), distinct for distinct pairs
HmacHex(rawBody, secret) ==
    CASE rawBody = "b1" /\ secret = PD_SECRET_TS -> "hex-b1-ts"
      [] rawBody = "b1" /\ secret = PD_SECRET_NOC -> "hex-b1-noc"
      [] rawBody = "b1" /\ secret = PD_SECRET_SOC -> "hex-b1-soc"
      [] rawBody = "b2" /\ secret = PD_SECRET_TS -> "hex-b2-ts"
      [] rawBody = "b2" /\ secret = PD_SECRET_NOC -> "hex-b2-noc"
      [] OTHER -> "hex-b2-soc"

\* a header value is a sequence of symbols: "," " " "v1=" and digests
NoHeader == [present |-> FALSE, val |-> <<>>]
Header(v) == [present |-> TRUE, val |-> v]

\* String.prototype.split(","): the pieces between the commas
RECURSIVE SplitComma(_)
SplitComma(s) ==
    IF \A i \in 1..Len(s) : s[i] # "," THEN <<s>>
    ELSE LET k == CHOOSE i \in 1..Len(s) :
                     s[i] = "," /\ \A j \in 1..(i - 1) : s[j] # ","
         IN <<SubSeq(s, 1, k - 1)>> \o SplitComma(SubSeq(s, k + 1, Len(s)))

\* mutant: the candidates are compared untrimmed
Trim_none(s) == s

\* String.prototype.trim(): drop leading and trailing whitespace
RECURSIVE Trim(_)
Trim(s) ==
    IF s = <<>> THEN s
    ELSE IF Head(s) = " " THEN Trim(Tail(s))
    ELSE IF s[Len(s)] = " " THEN Trim(SubSeq(s, 1, Len(s) - 1))
    ELSE s

\* mutant: only the presence of the header is checked
verifyPagerDutySignature_presence(header, rawBody, secret) ==
    header.present /\ header.val # <<>>

\* function verifyPagerDutySignature(req, secret)
verifyPagerDutySignature(header, rawBody, secret) ==
    IF ~header.present \/ header.val = <<>> THEN FALSE
    ELSE IF secret = Undefined THEN FALSE      \* createHmac throws; catch
    ELSE LET expectedSignature == <<"v1=", HmacHex(rawBody, secret)>>
             cands == SplitComma(header.val)
         IN \E i \in 1..Len(cands) : Trim(cands[i]) = expectedSignature

-----------------------------------------------------------------------------
(* routes/pagerduty.js: the synchronous parts of router.post("/webhook")   *)

\* the secret of the service the event comes from; "" for an unknown service
\* mutant: a service that matches no configured service is checked against
\* the Technical Support secret
SecretFor_fallbackTS(serviceId, serviceName) ==
    IF serviceId = PD_SERVICE_NOC \/ serviceName = "Alerts"
      THEN PD_SECRET_NOC
    ELSE IF serviceId = PD_SERVICE_SOC \/ serviceName = "Security Operations Center"
      THEN PD_SECRET_SOC
    ELSE PD_SECRET_TS

SecretFor(serviceId, serviceName) ==
    IF serviceId = PD_SERVICE_TS \/ serviceName = "Technical Support"
      THEN PD_SECRET_TS
    ELSE IF serviceId = PD_SERVICE_NOC \/ serviceName = "Alerts"
      THEN PD_SECRET_NOC
    ELSE IF serviceId = PD_SERVICE_SOC \/ serviceName = "Security Operations Center"
      THEN PD_SECRET_SOC
    ELSE ""

IsDigits(tok) == tok \in {"42", "7", "1", "13"}

\* incident.title?.match(/#(\d+)/): the digits after the first "#" that is
\* followed by digits; "" when there is no match
\* mutant: the last "#" followed by digits is taken
ExtractTicketId_last(title) ==
    IF \E i \in 1..(Len(title) - 1) : title[i] = "#" /\ IsDigits(title[i + 1])
      THEN LET k == CHOOSE i \in 1..(Len(title) - 1) :
                       /\ title[i] = "#" /\ IsDigits(title[i + 1])
                       /\ \A j \in (i + 1)..(Len(title) - 1) :
                             ~(title[j] = "#" /\ IsDigits(title[j + 1]))
           IN title[k + 1]
      ELSE ""

ExtractTicketId(title) ==
    IF \E i \in 1..(Len(title) - 1) : title[i] = "#" /\ IsDigits(title[i + 1])
      THEN LET k == CHOOSE i \in 1..(Len(title) - 1) :
                       /\ title[i] = "#" /\ IsDigits(title[i + 1])
                       /\ \A j \in 1..(i - 1) :
                             ~(title[j] = "#" /\ IsDigits(title[j + 1]))
           IN title[k + 1]
      ELSE ""

\* mutant: every other event type acknowledges the ticket
StatusUpdate_otherAcks(eventType) ==
    IF eventType = "incident.resolved" THEN "Returned To Normal"
    ELSE "Acknowledged"

\* statusUpdate of the event type; "" is null
StatusUpdate(eventType) ==
    IF eventType = "incident.acknowledged" THEN "Acknowledged"
    ELSE IF eventType = "incident.resolved" THEN "Returned To Normal"
    ELSE ""

\* mutant: no priority id is mapped
PriorityUpdate_none(pdPriorityId) == ""

\* switch (pdPriorityId); "" is null
PriorityUpdate(pdPriorityId) ==
    CASE pdPriorityId = "" -> ""
      [] pdPriorityId = PD_PRIORITY_P1 -> "1a - Emergency"
      [] pdPriorityId = PD_PRIORITY_P2 -> "2a - Critical"
      [] pdPriorityId = PD_PRIORITY_P3 -> "3 - High"
      [] pdPriorityId = PD_PRIORITY_P4 -> "4a - Normal"
      [] pdPriorityId = PD_PRIORITY_P5 -> "10a - Maintenance"
      [] OTHER -> ""

cwPriorityMap(name) ==
    CASE name = "1a - Emergency" -> 6
      [] name = "2a - Critical" -> 15
      [] name = "3 - High" -> 8
      [] name = "4a - Normal" -> 7
      [] name = "10a - Maintenance" -> 12
      [] OTHER -> 0

\* the list of patch operations built from the event
Updates(eventType, pdPriorityId) ==
    (IF StatusUpdate(eventType) # ""
       THEN <<[path |-> "status", name |-> StatusUpdate(eventType), id |-> 0]>>
       ELSE <<>>)
    \o
    (IF PriorityUpdate(pdPriorityId) # ""
        /\ cwPriorityMap(PriorityUpdate(pdPriorityId)) # 0
       THEN <<[path |-> "priority", name |-> PriorityUpdate(pdPriorityId),
               id |-> cwPriorityMap(PriorityUpdate(pdPriorityId))]>>
       ELSE <<>>)

\* mutant: the resolution note block also runs for acknowledgements
IsResolution_orAck(eventType) ==
    eventType \in {"incident.resolved", "incident.acknowledged"}

\* if (eventType === "incident.resolved"): the resolution note block runs
IsResolution(eventType) == eventType = "incident.resolved"

\* mutant: annotation events get no branch of their own
IsAnnotation_never(eventType) == FALSE

\* if (eventType === "incident.annotated"): the annotation branch runs
IsAnnotation(eventType) == eventType = "incident.annotated"

\* incident?.event_details?.description || incident?.summary || "Annotation..."
AnnotationText(description, summary) ==
    IF description # "" THEN <<description>>
    ELSE IF summary # "" THEN <<summary>>
    ELSE <<"Annotation added in PagerDuty">>

-----------------------------------------------------------------------------
(* The resolution note.  A note's content is a sequence of tokens: " ",    *)
(* the marker "Resolution Note:" (any case) and words.                     *)

DefaultResolutionNote == <<"Resolved in PagerDuty">>

\* note.content?.trim().startsWith("Resolution Note:")
StartsWithMarker(content) ==
    Trim(content) # <<>> /\ Head(Trim(content)) = "Resolution Note:"

RECURSIVE DropSpaces(_)
DropSpaces(s) == IF s # <<>> /\ Head(s) = " " THEN DropSpaces(Tail(s)) ELSE s

\* content.replace(/^Resolution Note:\s*/i, "").trim()
StripMarker(content) ==
    IF content # <<>> /\ Head(content) \in {"Resolution Note:", "resolution note:"}
      THEN Trim(DropSpaces(Tail(content)))
      ELSE Trim(content)

\* the text of the resolution note, from the notes PagerDuty returned
ResolutionNote(notes) ==
    IF notes = <<>> THEN DefaultResolutionNote
    ELSE IF \E i \in 1..Len(notes) : StartsWithMarker(notes[i])
      THEN LET k == CHOOSE i \in 1..Len(notes) :
                       /\ StartsWithMarker(notes[i])
                       /\ \A j \in 1..(i - 1) : ~StartsWithMarker(notes[j])
           IN StripMarker(notes[k])
    ELSE IF Trim(notes[Len(notes)]) # <<>> THEN Trim(notes[Len(notes)])
    ELSE DefaultResolutionNote

-----------------------------------------------------------------------------
(* routes/pagerduty.js: router.post("/webhook") as a process               *)

MaxDeliveries == 2

SigTS == Header(<<"v1=", HmacHex("b1", PD_SECRET_TS)>>)
SigNOC == Header(<<"v1=", HmacHex("b1", PD_SECRET_NOC)>>)
SigSOC == Header(<<"v1=", "hex-old", ",", " ", "v1=", HmacHex("b1", PD_SECRET_SOC)>>)
SigOtherBody == Header(<<"v1=", HmacHex("b2", PD_SECRET_TS)>>)

TitleRef == <<"P1", "|", "#", "42", "-", "printer", "broken">>
TitleNoRef == <<"disk", "full">>
TitleLateRef == <<"#", "abc", "#", "7">>

PdEvent(parse, envelope, eventType, service, title, priorityId, header, body, description, summary) ==
    [parse |-> parse, envelope |-> envelope, eventType |-> eventType,
     serviceId |-> service[1], serviceName |-> service[2], title |-> title,
     priorityId |-> priorityId, header |-> header, body |-> body,
     description |-> description, summary |-> summary]

PdServices ==
    {<<PD_SERVICE_TS, "Technical Support">>,
     <<PD_SERVICE_SOC, "Technical Support">>,
     <<PD_SERVICE_SOC, "Security Operations Center">>,
     <<PD_SERVICE_NOC, "Alerts">>,
     <<"svc-x", "Alerts">>,
     <<"svc-x", "Unknown Service">>,
     <<"", "Unknown Service">>}

\* bodies an alerting webhook can carry
PdEvents ==
    {PdEvent("ok", TRUE, et, sv, ti, pr, hd, "b1", "", "") :
        et \in {"incident.resolved", "incident.acknowledged", "incident.triggered"},
        sv \in PdServices,
        ti \in {TitleRef, TitleNoRef},
        pr \in {"", PD_PRIORITY_P1, "prio-x"},
        hd \in {NoHeader, SigTS, SigNOC, SigSOC, SigOtherBody}}
    \cup
    {PdEvent("ok", TRUE, "incident.annotated", <<PD_SERVICE_TS, "Technical Support">>,
             ti, "", NoHeader, "b2", tx[1], tx[2]) :
        ti \in {TitleRef, TitleNoRef, TitleLateRef},
        tx \in {<<"rebooted host", "note added">>, <<"", "note added">>, <<"", "">>}}
    \cup
    {PdEvent("bad", FALSE, "", <<"", "">>, <<>>, "", NoHeader, "b2", "", ""),
     PdEvent("ok", FALSE, "", <<"", "">>, <<>>, "", NoHeader, "b2", "", "")}

NoPdEvent == PdEvent("", FALSE, "", <<"", "">>, <<>>, "", NoHeader, "", "", "")

\* the notes collection PagerDuty returns for the incident
NoteLists ==
    {<<>>,
     <<<<"foo">>, <<"Resolution Note:", " ", "bar">>>>,
     <<<<"foo">>, <<"baz", " ">>>>,
     <<<<"Resolution Note:", " ", "first">>, <<"Resolution Note:", "second">>>>,
     <<<<" ", "Resolution Note:", "fixed DNS">>>>,
     <<<<" ">>>>}

IdlePd ==
    [pc |-> "idle", ev |-> NoPdEvent, ticketId |-> "", secret |-> "",
     verified |-> FALSE, patches |-> 0, notes |-> 0, fetches |-> 0,
     fetched |-> [ok |-> FALSE, notes |-> <<>>], resolution |-> <<>>,
     first |-> 1, failed |-> "", resp |-> 0, redelivered |-> FALSE]

PdRespond(p, code) == [p EXCEPT !.pc = "done", !.resp = code]

\* a remote call threw: the outer catch answers 500
PdThrow(p, call) == [PdRespond(p, 500) EXCEPT !.failed = call]

PatchCall(ticketId, updates) ==
    [op |-> "updateTicket", ticketId |-> ticketId, updates |-> updates,
     kind |-> "", text |-> <<>>]

NoteCall(ticketId, text, kind) ==
    [op |-> "addTicketNote", ticketId |-> ticketId, updates |-> <<>>,
     kind |-> kind, text |-> text]

\* the code after the ticket patch: the resolution note block or the response
AfterPatch(p) ==
    IF IsResolution(p.ev.eventType)
      THEN [p EXCEPT !.pc = "fetch", !.fetches = @ + 1]
      ELSE PdRespond(p, 200)

\* the synchronous code from the arrival of the request to the first await
\* or the response: the request's new state and the remote call it makes
PdStart(ev) ==
    LET p == [IdlePd EXCEPT !.ev = ev, !.ticketId = ExtractTicketId(ev.title)]
        secret == SecretFor(ev.serviceId, ev.serviceName)
        updates == Updates(ev.eventType, ev.priorityId)
        none == <<>>
    IN
    IF ev.parse = "bad" THEN [p |-> PdRespond(p, 500), calls |-> none]
    ELSE IF ~ev.envelope THEN [p |-> PdRespond(p, 400), calls |-> none]
    ELSE IF IsAnnotation(ev.eventType) THEN
        IF p.ticketId # ""
          THEN [p |-> [p EXCEPT !.pc = "ann_note", !.notes = @ + 1],
                calls |-> <<NoteCall(p.ticketId,
                                     AnnotationText(ev.description, ev.summary),
                                     "Detail")>>]
          ELSE [p |-> PdRespond(p, 200), calls |-> none]
    ELSE IF ev.serviceId = "" THEN [p |-> PdRespond(p, 200), calls |-> none]
    ELSE IF secret = "" THEN [p |-> PdRespond(p, 400), calls |-> none]
    ELSE IF ~verifyPagerDutySignature(ev.header, ev.body, secret)
      THEN [p |-> PdRespond([p EXCEPT !.secret = secret], 400), calls |-> none]
    ELSE LET q == [p EXCEPT !.secret = secret, !.verified = TRUE] IN
         IF q.ticketId = "" THEN [p |-> PdRespond(q, 200), calls |-> none]
         ELSE IF updates # <<>>
           THEN [p |-> [q EXCEPT !.pc = "patch", !.patches = @ + 1],
                 calls |-> <<PatchCall(q.ticketId, updates)>>]
         ELSE [p |-> AfterPatch(q), calls |-> none]

\* an alerting webhook arrives
P_Receive ==
    /\ pd.pc \in {"idle", "done"}
    /\ delivered < MaxDeliveries
    /\ delivered' = delivered + 1
    /\ \E ev \in PdEvents :
          \* redelivered: PagerDuty sends again the event it sent last and
          \* that was answered 200
          /\ pd' = [PdStart(ev).p EXCEPT
                      !.first = Len(cwCalls) + 1,
                      !.redelivered = (pd.pc = "done" /\ pd.ev = ev
                                       /\ pd.resp = 200)]
          /\ cwCalls' = cwCalls \o PdStart(ev).calls
          /\ lastWebhookEvent' = IF ev.parse = "ok" THEN ev.body
                                 ELSE lastWebhookEvent
    /\ UNCHANGED <<cwVars, sig, ci>>

\* addTicketNote (annotation) returns or throws
P_AnnNote ==
    /\ pd.pc = "ann_note"
    /\ \E ok \in BOOLEAN :
          pd' = IF ok THEN PdRespond(pd, 200) ELSE PdThrow(pd, "addTicketNote")
    /\ UNCHANGED <<cwVars, sig, ci, cwCalls, lastWebhookEvent, delivered>>

\* updateTicket returns or throws
P_Patch ==
    /\ pd.pc = "patch"
    /\ \E ok \in BOOLEAN :
          pd' = IF ok THEN AfterPatch(pd) ELSE PdThrow(pd, "updateTicket")
    /\ UNCHANGED <<cwVars, sig, ci, cwCalls, lastWebhookEvent, delivered>>

\* mutant: a failed notes fetch leaves the note without text
FetchedText_empty(fetched) ==
    IF fetched.ok THEN ResolutionNote(fetched.notes) ELSE <<>>

\* axios.get(.../notes) inside the inner try: the text from the notes, or the
\* initial text when the fetch fails
FetchedText(fetched) ==
    IF fetched.ok THEN ResolutionNote(fetched.notes) ELSE DefaultResolutionNote

\* the notes fetch returns or fails; addTicketNote is called with the text
P_Fetch ==
    /\ pd.pc = "fetch"
    /\ \E f \in {[ok |-> TRUE, notes |-> n] : n \in NoteLists}
                \cup {[ok |-> FALSE, notes |-> <<>>]} :
          /\ pd' = [pd EXCEPT !.pc = "res_note", !.notes = @ + 1, !.fetched = f,
                              !.resolution = FetchedText(f)]
          /\ cwCalls' = Append(cwCalls,
                               NoteCall(pd.ticketId, FetchedText(f), "Resolution"))
    /\ UNCHANGED <<cwVars, sig, ci, lastWebhookEvent, delivered>>

\* addTicketNote (resolution) returns or throws
P_ResNote ==
    /\ pd.pc = "res_note"
    /\ \E ok \in BOOLEAN :
          pd' = IF ok THEN PdRespond(pd, 200) ELSE PdThrow(pd, "addTicketNote")
    /\ UNCHANGED <<cwVars, sig, ci, cwCalls, lastWebhookEvent, delivered>>

NextPD ==
    \/ P_Receive
    \/ P_AnnNote
    \/ P_Patch
    \/ P_Fetch
    \/ P_ResNote

-----------------------------------------------------------------------------
(* verifyPagerDutySignature on arbitrary headers                           *)

MaxHdrLen == 5

SigAlphabet == {",", " ", "v1=", "hex-b1-ts", "hex-b1-noc", "hex-b2-ts"}

SigHeaders ==
    {NoHeader} \cup
    {Header(v) : v \in UNION {[1..n -> SigAlphabet] : n \in 0..MaxHdrLen}}

IdleSig == [pc |-> "off", header |-> NoHeader, body |-> "", secret |-> "",
            result |-> FALSE]

Verify ==
    /\ sig.pc = "ready"
    /\ sig' = [sig EXCEPT !.pc = "done",
                  !.result = verifyPagerDutySignature(sig.header, sig.body,
                                                      sig.secret)]
    /\ UNCHANGED <<cwVars, pdVars, ci>>

NextSig == Verify

-----------------------------------------------------------------------------
(* The synchronous code of createIncident, from the empty re-check to the  *)
(* create request, as a function of the ticket, in both variants; and the  *)
(* ticket reference routes/pagerduty.js reads back from the title.         *)

CallIds == {"42", "7"}
CallBoards == {"Technical Support", "Alerts", "Service Desk"}
CallPriorities ==
    {"1a - Emergency", "1B - EMERGENCY", "2c - Critical", "3 - High",
     "4a - Normal", "4b - Normal", "10a - Maintenance", ""}
CallSummaries ==
    {<<>>, Summary_kw, Summary_plain, <<"see", "#", "13">>,
     <<"#", "1", "via", "Technical", "Support">>}

CallTickets ==
    {Ticket(id, b, "New", su, pr) :
        id \in CallIds, b \in CallBoards, su \in CallSummaries,
        pr \in CallPriorities}

NoResult == [outcome |-> "none", payload |-> NoPayload, ref |-> ""]

IdleCall == [pc |-> "off", ticket |-> NoTicket, strict |-> NoResult,
             admitAll |-> NoResult]

\* outcome and payload of one variant, and the reference read from the title
Result(outcome, payload) ==
    IF outcome = "create"
      THEN [outcome |-> outcome, payload |-> payload,
            ref |-> ExtractTicketId(payload.title)]
      ELSE [NoResult EXCEPT !.outcome = outcome]

Build ==
    /\ ci.pc = "ready"
    /\ ci' = [ci EXCEPT
                  !.pc = "done",
                  !.strict = Result(Admission(ci.ticket),
                                    CreatePayload(ci.ticket)),
                  !.admitAll = Result(AdmitAllAdmission(ci.ticket),
                                      AdmitAllPayload(ci.ticket))]
    /\ UNCHANGED <<cwVars, pdVars, sig>>

NextCall == Build

-----------------------------------------------------------------------------
(* The ticketing side as a system                                          *)

InitIncidents ==
    {{}} \cup {{[id |-> 1, key |-> incidentKey(T_ok), status |-> st]} :
                 st \in {"triggered", "resolved"}}

InitCW ==
    /\ variant \in {"retry", "single"}
    /\ incidents \in InitIncidents
    /\ incidentLock = {}
    /\ req = [r \in Requests |-> IdleReq]
    /\ overlap = {}
    /\ lookupErr = FALSE

Init ==
    /\ InitCW
    /\ pd = IdlePd
    /\ cwCalls = <<>>
    /\ lastWebhookEvent = ""
    /\ delivered = 0
    /\ sig = IdleSig
    /\ ci = IdleCall

Next ==
    \/ \E self \in Requests : CallCreateIncident(self)
    \/ \E self \in Requests : CI_WaitDone(self)
    \/ \E self \in Requests : PD_Lookup(self)
    \/ \E self \in Requests : CI_Recheck(self)
    \/ \E self \in Requests : PD_Create(self)
    \/ \E self \in Requests : CI_Created(self)
    \/ \E self \in Requests : PD_Note(self)
    \/ \E self \in Requests : CI_Noted(self)
    \/ \E self \in Requests : H_Receive(self)
    \/ \E self \in Requests : H_Desc(self)
    \/ \E self \in Requests : H_Lookup1(self)
    \/ \E self \in Requests : H_Delay(self)
    \/ \E self \in Requests : H_Lookup2(self)
    \/ \E self \in Requests : PD_Update(self)
    \/ \E self \in Requests : H_Updated(self)

Spec == Init /\ [][Next]_vars



InitIdleCW ==
    /\ variant = "retry"
    /\ incidents = {}
    /\ incidentLock = {}
    /\ req = [r \in Requests |-> IdleReq]
    /\ overlap = {}
    /\ lookupErr = FALSE

InitPD ==
    /\ InitIdleCW
    /\ pd = IdlePd
    /\ cwCalls = <<>>
    /\ lastWebhookEvent = ""
    /\ delivered = 0
    /\ sig = IdleSig
    /\ ci = IdleCall

SpecPD == InitPD /\ [][NextPD]_vars

InitSig ==
    /\ InitIdleCW
    /\ pd = IdlePd
    /\ cwCalls = <<>>
    /\ lastWebhookEvent = ""
    /\ delivered = 0
    /\ sig \in {[pc |-> "ready", header |-> h, body |-> b, secret |-> s,
                 result |-> FALSE] :
                  h \in SigHeaders, b \in Bodies,
                  s \in {PD_SECRET_TS, PD_SECRET_NOC, Undefined}}
    /\ ci = IdleCall

SpecSig == InitSig /\ [][NextSig]_vars

InitCall ==
    /\ InitIdleCW
    /\ pd = IdlePd
    /\ cwCalls = <<>>
    /\ lastWebhookEvent = ""
    /\ delivered = 0
    /\ sig = IdleSig
    /\ ci \in {[IdleCall EXCEPT !.pc = "ready", !.ticket = t] : t \in CallTickets}

SpecCall == InitCall /\ [][NextCall]_vars

\* Both routes of the server.  The two sides share no state, so the system is
\* started in states it reaches after some webhooks were already answered
\* without a remote call: either the alerting side has answered all its
\* deliveries, or it has one delivery left and one ticketing request is left.

\* the alerting side after n deliveries without the event envelope (400)
PdAfterMalformed(n) ==
    LET ev == PdEvent("ok", FALSE, "", <<"", "">>, <<>>, "", NoHeader, "b2", "", "") IN
    /\ pd = [PdStart(ev).p EXCEPT !.first = 1]
    /\ cwCalls = <<>>
    /\ lastWebhookEvent = ev.body
    /\ delivered = n

\* a ticketing request answered 200 for an event that is not a ticket event
IgnoredReq ==
    Respond([IdleReq EXCEPT !.kind = "webhook", !.ticket = T_ok,
                            !.evtype = "other"], 200)

InitBridge ==
    /\ sig = IdleSig
    /\ ci = IdleCall
    /\ variant = "retry"
    /\ incidents \in InitIncidents
    /\ incidentLock = {}
    /\ overlap = {}
    /\ lookupErr = FALSE
    /\ \/ /\ req = [r \in Requests |-> IdleReq]
          /\ PdAfterMalformed(MaxDeliveries)
       \/ /\ req = [r \in Requests |-> IF r = "r1" THEN IdleReq ELSE IgnoredReq]
          /\ PdAfterMalformed(MaxDeliveries - 1)

NextBridge == Next \/ NextPD

SpecBridge == InitBridge /\ [][NextBridge]_vars

\* ---------------------------------------------------------------------------
\* createIncident calls alone, with the scheduling of the event loop: a timer
\* that is set fires, a continuation whose request was answered runs, and
\* every remote call is answered (it returns or fails)
\* ---------------------------------------------------------------------------
InitGuard == Init /\ variant = "retry"

NextGuard ==
    \/ \E self \in Requests : CallCreateIncident(self)
    \/ \E self \in Requests : CI_WaitDone(self)
    \/ \E self \in Requests : PD_Lookup(self)
    \/ \E self \in Requests : CI_Recheck(self)
    \/ \E self \in Requests : PD_Create(self)
    \/ \E self \in Requests : CI_Created(self)
    \/ \E self \in Requests : PD_Note(self)
    \/ \E self \in Requests : CI_Noted(self)

CallFairness ==
    \A self \in Requests :
        /\ WF_vars(CI_WaitDone(self))
        /\ WF_vars(PD_Lookup(self))
        /\ WF_vars(CI_Recheck(self))
        /\ WF_vars(PD_Create(self))
        /\ WF_vars(CI_Created(self))
        /\ WF_vars(PD_Note(self))
        /\ WF_vars(CI_Noted(self))

SpecGuard == InitGuard /\ [][NextGuard]_vars /\ CallFairness


-----------------------------------------------------------------------------
(* Properties                                                              *)

\* the request called createIncident and the call has returned or thrown
Returned(r) == r.pc = "done" /\ r.ret # "none"

\* no incident existed for the key before the requests started
FreshKey(key) == \A i \in incidents : i.key = key => i.id # 1

\* C1: two overlapping createIncident calls for one key, no incident for the
\* key beforehand, ticket admitted, every lookup and create answered without
\* failure: exactly one create request is submitted, and the call that did
\* not submit it returns the incident the other call created.
C1_OneCreateForOverlappingCalls ==
    \A a, b \in Requests :
        ( /\ a # b
          /\ Returned(req[a]) /\ Returned(req[b])
          /\ incidentKey(req[a].ticket) = incidentKey(req[b].ticket)
          /\ incidentKey(req[a].ticket) \in overlap
          /\ FreshKey(incidentKey(req[a].ticket))
          /\ Admission(req[a].ticket) = "create"
          /\ Admission(req[b].ticket) = "create"
          /\ req[a].ret # "throw" /\ req[b].ret # "throw"
          /\ ~lookupErr )
        => /\ req[a].creates + req[b].creates = 1
           /\ req[a].creates = 1 =>
                 req[b].ret = "incident" /\ req[b].retInc = req[a].retInc

\* C2: a key is in incidentLock only while some createIncident call for that
\* key is in progress.
C2_LockOnlyWhileInProgress ==
    \A key \in incidentLock :
        \E r \in Requests :
            InCreate(req[r]) /\ incidentKey(req[r].ticket) = key

\* two calls that took the lock have left, one by a skip and one by a throw
C2_Witness ==
    \E a, b \in Requests :
        /\ Returned(req[a]) /\ req[a].locked /\ req[a].ret = "null"
        /\ Returned(req[b]) /\ req[b].locked /\ req[b].ret = "throw"
        /\ req[b].ticket.board \notin allowedBoards
        /\ incidentLock = {}

\* C3: the webhook handler found a resolved incident for a ticket in a trigger
\* status that passes the admission filters: a create request with the same
\* correlation key is submitted.
C3_ReopenSubmitsCreate ==
    \A r \in Requests :
        ( /\ req[r].kind = "webhook" /\ req[r].pc = "done"
          /\ req[r].branch = "reopen"
          /\ req[r].existing.status = "resolved"
          /\ req[r].status \in TRIGGER_STATUSES
          /\ Admission(req[r].ticket) = "create" )
        => /\ req[r].creates = 1
           /\ req[r].payload.incident_key = incidentKey(req[r].ticket)

C5_SkipAnswers200 ==
    \A r \in Requests :
        ( /\ req[r].kind = "webhook" /\ req[r].pc = "done"
          /\ req[r].ret = "null" /\ ~lookupErr )
        => req[r].resp = 200

\* C6: the webhook handler submits a create request only for a ticket whose
\* status is in the trigger set.
C6_CreateOnlyForTriggerStatus ==
    \A r \in Requests :
        (req[r].kind = "webhook" /\ req[r].creates > 0)
        => req[r].ticket.status \in TRIGGER_STATUSES

\* some candidate of the header value, between commas and padded by blanks
\* only, is "v1=" followed by the digest
HasCandidate(val, hex) ==
    \E i \in 1..(Len(val) - 1) :
        /\ val[i] = "v1=" /\ val[i + 1] = hex
        /\ \E a \in 1..i, b \in (i + 1)..Len(val) :
              /\ a = 1 \/ val[a - 1] = ","
              /\ b = Len(val) \/ val[b + 1] = ","
              /\ \A m \in (a..b) \ {i, i + 1} : val[m] = " "

\* the header carries a valid signature of the body under the secret
ValidSignature(header, body, secret) ==
    /\ header.present
    /\ secret # Undefined
    /\ HasCandidate(header.val, HmacHex(body, secret))

\* the request is a non-annotation event of a known service
PdKnownService ==
    /\ pd.ev.parse = "ok" /\ pd.ev.envelope
    /\ pd.ev.eventType # "incident.annotated"
    /\ pd.ev.serviceId # ""
    /\ SecretFor(pd.ev.serviceId, pd.ev.serviceName) # ""

\* C7: a non-annotation event of a known service whose signature does not
\* verify is answered 400 and causes no ticket patch, no ticket note and no
\* notes fetch.
C7_BadSignatureNoRemoteCall ==
    ( /\ pd.pc # "idle"
      /\ PdKnownService
      /\ ~ValidSignature(pd.ev.header, pd.ev.body,
                         SecretFor(pd.ev.serviceId, pd.ev.serviceName)) )
    => /\ pd.pc = "done" /\ pd.resp = 400
       /\ pd.patches = 0 /\ pd.notes = 0 /\ pd.fetches = 0
       /\ Len(cwCalls) = pd.first - 1

\* a signed event is rejected because the signature is of another body
C7_Witness ==
    /\ PdKnownService
    /\ pd.ev.header = SigOtherBody
    /\ pd.ev.eventType = "incident.resolved"
    /\ pd.ticketId = "42"
    /\ pd.pc = "done" /\ pd.resp = 400

\* C8: verifyPagerDutySignature returns true exactly when the header is
\* present and one of its comma-separated candidates, trimmed, is "v1="
\* followed by the digest of the body under the secret; it returns false
\* when the digest cannot be computed.
C8_VerifyIffCandidateMatches ==
    sig.pc = "done" =>
        (sig.result <=> ValidSignature(sig.header, sig.body, sig.secret))

\* a header of two candidates, the matching one padded with a blank, verified
C8_Witness ==
    /\ sig.pc = "done" /\ sig.result
    /\ \E i, j \in 1..Len(sig.header.val) :
          sig.header.val[i] = "," /\ sig.header.val[j] = " "

\* the secret configured for a service ID
SecretOfId(serviceId) ==
    CASE serviceId = PD_SERVICE_TS -> PD_SECRET_TS
      [] serviceId = PD_SERVICE_NOC -> PD_SECRET_NOC
      [] serviceId = PD_SERVICE_SOC -> PD_SECRET_SOC
      [] OTHER -> ""

\* C9: when the service ID of the payload is one of the three configured
\* IDs, the secret used for verification is that service's secret, whatever
\* the display name.
C9_SecretByServiceIdFirst ==
    ( /\ pd.secret # ""
      /\ pd.ev.serviceId \in {PD_SERVICE_TS, PD_SERVICE_NOC, PD_SERVICE_SOC} )
    => pd.secret = SecretOfId(pd.ev.serviceId)

\* the Resolution notes the current request has asked ConnectWise to add
ResolutionCalls ==
    {i \in pd.first..Len(cwCalls) :
        cwCalls[i].op = "addTicketNote" /\ cwCalls[i].kind = "Resolution"}

\* the request is a verified event whose title carries a ticket reference
PdVerifiedWithTicket ==
    pd.pc = "done" /\ pd.verified /\ pd.ticketId # ""

C11_RetryAddsNoSecondNote ==
    (pd.redelivered /\ IsResolution(pd.ev.eventType)
        /\ pd.verified /\ pd.ticketId # "")
    => ResolutionCalls = {}

\* the text of a marker note with the marker taken off
TextAfterMarker(content) == Trim(DropSpaces(Tail(Trim(content))))

\* the order of preference C12 states, on a chronological list of notes
PreferredNoteText(notes) ==
    IF \E i \in 1..Len(notes) : StartsWithMarker(notes[i])
      THEN LET k == CHOOSE i \in 1..Len(notes) :
                       /\ StartsWithMarker(notes[i])
                       /\ \A j \in (i + 1)..Len(notes) : ~StartsWithMarker(notes[j])
           IN TextAfterMarker(notes[k])
    ELSE IF notes # <<>> /\ Trim(notes[Len(notes)]) # <<>>
      THEN Trim(notes[Len(notes)])
    ELSE DefaultResolutionNote

\* C12: the Resolution note text is the text of the latest note that starts
\* with "Resolution Note:", marker stripped; without a marker note the text of
\* the last note; without notes the fixed fallback.
C12_LatestMarkerNoteWins ==
    (pd.pc \in {"res_note", "done"} /\ pd.fetched.ok)
    => /\ pd.resolution = PreferredNoteText(pd.fetched.notes)
       /\ \A i \in ResolutionCalls :
             cwCalls[i].text = PreferredNoteText(pd.fetched.notes)

ExpectedStatus(r) ==
    IF r.evtype = "ticket" /\ (r.ticket = NoTicket \/ r.ticket.id = "") THEN 400
    ELSE IF r.evtype = "unparsed" \/ r.ret = "throw" \/ "update" \in r.failures
      THEN 500
    ELSE 200

\* C14: every finished ticketing webhook (latest revision) all of whose
\* lookups were answered has the one answer of its class: 200 accepted,
\* ignored or skipped; 400 malformed; 500 only on an internal or remote
\* failure.
C14_OneAnswerOfItsClass ==
    \A r \in Requests :
        (variant = "retry" /\ req[r].kind = "webhook" /\ req[r].pc = "done"
            /\ "lookup" \notin req[r].failures)
        => req[r].resp = ExpectedStatus(req[r])

\* the request made none of the remote calls of the ticketing side
NoRemoteCall(r) ==
    /\ r.descReqs = 0 /\ r.lookups = 0 /\ r.rechecks = 0
    /\ r.creates = 0 /\ r.noteReqs = 0 /\ r.updates = 0

\* the event is not a ticket event, carries no ticket or no ticket id, or its
\* board is none of the three allowed boards
IgnoredEvent(r) ==
    \/ r.evtype # "ticket"
    \/ r.ticket = NoTicket
    \/ r.ticket.id = ""
    \/ r.ticket.board \notin
          {"Technical Support", "Security Operations Center", "Alerts"}

\* C15: a ticketing webhook whose event is not of type ticket, has no ticket
\* or ticket id, or is on a board outside the three allowed ones is answered
\* at once, without any remote call.
C15_IgnoredEventMakesNoRemoteCall ==
    \A r \in Requests :
        (req[r].kind = "webhook" /\ IgnoredEvent(req[r]))
        => req[r].pc = "done" /\ NoRemoteCall(req[r])

\* a Service Desk ticket was answered 200 without a remote call while the
\* other request was inside its own calls
C15_Witness ==
    \E r \in Requests, o \in Requests :
        /\ req[r].kind = "webhook" /\ req[r].pc = "done" /\ req[r].resp = 200
        /\ req[r].evtype = "ticket" /\ req[r].ticket.board = "Service Desk"
        /\ NoRemoteCall(req[r])
        /\ req[o].kind = "webhook" /\ req[o].lookups > 0

\* the lookup that decided the request returned an incident
FoundExisting(r) == r.kind = "webhook" /\ r.existing.id # 0

\* C16: with an existing incident that is not resolved and a ticket status of
\* the resolved set the handler makes exactly one updateIncident(id,
\* "resolved") and no create; with an incident that is not resolved and a
\* trigger status, or a status of neither set, it makes no create and no
\* update.
C16_FoundIncidentBranches ==
    \A r \in Requests :
        FoundExisting(req[r]) =>
            LET st == req[r].status
                pdst == req[r].existing.status
            IN
            /\ (pdst # "resolved" /\ st \in RESOLVE_STATUSES)
                 => /\ req[r].updates = 1
                    /\ req[r].upd = [id |-> req[r].existing.id,
                                     status |-> "resolved"]
                    /\ req[r].creates = 0 /\ req[r].rechecks = 0
            /\ ((pdst # "resolved" /\ st \in TRIGGER_STATUSES)
                    \/ st \notin (TRIGGER_STATUSES \cup RESOLVE_STATUSES))
                 => /\ req[r].updates = 0 /\ req[r].creates = 0
                    /\ req[r].rechecks = 0
                    /\ req[r].pc = "done" /\ req[r].resp = 200

\* a resolved ticket found its triggered incident, asked for its resolution
\* and was answered 200 with the incident resolved
C16_Witness ==
    \E r \in Requests :
        /\ FoundExisting(req[r])
        /\ req[r].existing.status = "triggered"
        /\ req[r].status \in RESOLVE_STATUSES
        /\ req[r].pc = "done" /\ req[r].resp = 200 /\ req[r].updates = 1
        /\ \E i \in incidents :
              i.id = req[r].existing.id /\ i.status = "resolved"

\* the lookup was answered and returned no incident
FoundNothing(reply) == reply.st = "ok" /\ reply.inc.id = 0

DeliveryCalls == SubSeq(cwCalls, pd.first, Len(cwCalls))

\* the request is a finished incident.annotated event
PdAnnotationDone ==
    /\ pd.pc = "done" /\ pd.ev.parse = "ok" /\ pd.ev.envelope
    /\ pd.ev.eventType = "incident.annotated"

\* C18 as stated: an incident.annotated event is answered 200 without
\* service resolution, verification or ticket patch; with a ticket reference
\* in the title it makes exactly one Detail note call whose text is the
\* annotation's description or summary, without one it makes no call.
C18_AnnotationAnswers200 ==
    PdAnnotationDone =>
        /\ pd.secret = "" /\ ~pd.verified
        /\ pd.patches = 0 /\ pd.fetches = 0
        /\ pd.resp = 200
        /\ IF pd.ticketId # ""
             THEN /\ Len(DeliveryCalls) = 1
                  /\ DeliveryCalls[1].op = "addTicketNote"
                  /\ DeliveryCalls[1].kind = "Detail"
                  /\ DeliveryCalls[1].ticketId = pd.ticketId
                  /\ \E t \in {pd.ev.description, pd.ev.summary} :
                        t # "" /\ DeliveryCalls[1].text = <<t>>
             ELSE DeliveryCalls = <<>>

\* C18 amended: as above, but the text is the description, else the summary,
\* else the fixed text "Annotation added in PagerDuty", and the answer is 500
\* when the note call fails.
C18_AnnotationNoteOr500 ==
    PdAnnotationDone =>
        /\ pd.secret = "" /\ ~pd.verified
        /\ pd.patches = 0 /\ pd.fetches = 0
        /\ IF pd.ticketId # ""
             THEN /\ DeliveryCalls =
                       <<NoteCall(pd.ticketId,
                                  IF pd.ev.description # ""
                                    THEN <<pd.ev.description>>
                                  ELSE IF pd.ev.summary # ""
                                    THEN <<pd.ev.summary>>
                                  ELSE <<"Annotation added in PagerDuty">>,
                                  "Detail")>>
                  /\ pd.resp = IF pd.failed = "addTicketNote" THEN 500 ELSE 200
             ELSE DeliveryCalls = <<>> /\ pd.resp = 200

\* an unsigned annotation of a known service whose title carries #7 after a
\* non-numeric # added its summary to ticket 7 and was answered 200
C18_Witness ==
    /\ PdAnnotationDone
    /\ pd.ev.title = TitleLateRef /\ pd.ticketId = "7"
    /\ pd.ev.description = "" /\ pd.ev.summary = "note added"
    /\ pd.resp = 200 /\ pd.notes = 1
    /\ SecretFor(pd.ev.serviceId, pd.ev.serviceName) # ""

\* the updateTicket calls of the current request
PatchCalls ==
    {i \in pd.first..Len(cwCalls) : cwCalls[i].op = "updateTicket"}

\* the five configured priority ids
ConfiguredPriorityIds ==
    {PD_PRIORITY_P1, PD_PRIORITY_P2, PD_PRIORITY_P3, PD_PRIORITY_P4,
     PD_PRIORITY_P5}

\* the ticket status C19 gives an event type; "" is none
PatchedStatus(eventType) ==
    CASE eventType = "incident.resolved" -> "Returned To Normal"
      [] eventType = "incident.acknowledged" -> "Acknowledged"
      [] OTHER -> ""

\* the operation paths of a patch
PatchPaths(updates) == {updates[k].path : k \in 1..Len(updates)}

\* C19: a verified event with a ticket reference makes at most one
\* updateTicket call, exactly when it has a status patch or a priority patch;
\* the call carries the status operation ("Returned To Normal" for resolved,
\* "Acknowledged" for acknowledged) and the priority operation, present
\* exactly when the priority id is one of the five configured ids.
C19_OneCombinedPatch ==
    (pd.pc # "idle" /\ pd.verified /\ pd.ticketId # "") =>
        LET st == PatchedStatus(pd.ev.eventType)
            prio == pd.ev.priorityId \in ConfiguredPriorityIds
        IN
        /\ Cardinality(PatchCalls) <= 1
        /\ pd.patches = Cardinality(PatchCalls)
        /\ PatchCalls # {} <=> (st # "" \/ prio)
        /\ \A i \in PatchCalls :
              LET u == cwCalls[i].updates IN
              /\ cwCalls[i].ticketId = pd.ticketId
              /\ Len(u) = Cardinality(PatchPaths(u))
              /\ PatchPaths(u) = (IF st # "" THEN {"status"} ELSE {})
                                    \cup (IF prio THEN {"priority"} ELSE {})
              /\ \A k \in 1..Len(u) : u[k].path = "status" => u[k].name = st

\* an acknowledged event with priority P1 for ticket 42 made one call that
\* carries the status and the priority operation, and was answered 200
C19_Witness ==
    /\ pd.pc = "done" /\ pd.verified /\ pd.ticketId = "42" /\ pd.resp = 200
    /\ pd.ev.eventType = "incident.acknowledged"
    /\ pd.ev.priorityId = PD_PRIORITY_P1
    /\ \E i \in PatchCalls : Len(cwCalls[i].updates) = 2

\* the request is an event of a type other than resolved, acknowledged and
\* annotated
PdOtherType ==
    /\ pd.pc # "idle" /\ pd.ev.parse = "ok" /\ pd.ev.envelope
    /\ pd.ev.eventType \notin {"incident.resolved", "incident.acknowledged",
                                "incident.annotated"}

\* C20 as stated: an event of another type makes no ticket patch and no
\* ticket note, whatever its priority id.
C20_OtherTypeNoPatchNoNote ==
    PdOtherType => DeliveryCalls = <<>> /\ pd.fetches = 0

\* C20 amended: an event of another type makes no ticket note and no status
\* patch; it makes one updateTicket call, with the priority operation only,
\* exactly when it is verified, has a ticket reference and its priority id
\* is one of the five configured ids.
C20_OtherTypePriorityPatchOnly ==
    PdOtherType =>
        /\ pd.notes = 0 /\ pd.fetches = 0
        /\ \A i \in pd.first..Len(cwCalls) : cwCalls[i].op = "updateTicket"
        /\ Cardinality(PatchCalls) <= 1
        /\ PatchCalls # {} <=>
              (pd.verified /\ pd.ticketId # ""
                 /\ pd.ev.priorityId \in ConfiguredPriorityIds)
        /\ \A i \in PatchCalls : PatchPaths(cwCalls[i].updates) = {"priority"}

\* a verified incident.triggered event with priority P1 for ticket 42 made
\* its priority patch and was answered 200
C20_Witness ==
    /\ PdOtherType /\ pd.pc = "done" /\ pd.resp = 200
    /\ pd.verified /\ pd.ticketId = "42"
    /\ pd.ev.priorityId = PD_PRIORITY_P1
    /\ Cardinality(PatchCalls) = 1

\* the description fetch of the request failed
DescFailed(r) == "description" \in r.failures

\* the handler has decided what to do with the ticket
Decided(r) == r.kind = "webhook" /\ r.pc \notin {"idle", "desc", "lookup1", "delay", "lookup2"}

\* the notes fetch of the current alerting request failed
NotesFetchFailed ==
    pd.fetches = 1 /\ pd.pc \in {"res_note", "done"} /\ ~pd.fetched.ok

\* the ticketing half of C21: a request whose description fetch failed goes
\* on to the lookup without a description, and decides as a request for the
\* same ticket that fetched no description and saw the same lookup results
DescFailureSameDecision ==
    \A r \in Requests :
        (req[r].kind = "webhook" /\ DescFailed(req[r])) =>
            /\ req[r].lookups >= 1
            /\ req[r].ticket.description = "" /\ req[r].noteReqs = 0
            /\ \A o \in Requests \ {r} :
                  ( /\ Decided(req[r]) /\ Decided(req[o]) /\ ~DescFailed(req[o])
                    /\ req[o].ticket = req[r].ticket
                    /\ req[o].look1 = req[r].look1
                    /\ req[o].look2 = req[r].look2 )
                  => /\ req[o].branch = req[r].branch
                     /\ req[o].existing = req[r].existing
                     /\ req[o].updates = req[r].updates
                     /\ req[o].upd = req[r].upd
                     /\ (req[o].recheck.st = "ok" /\ req[o].recheck = req[r].recheck)
                          => /\ req[o].creates = req[r].creates
                             /\ req[o].payload = req[r].payload

\* C21 as stated: a failed description fetch leaves the ticketing decision
\* as it is without a description; after a failed notes fetch the alerting
\* handler asks for one Resolution note with the fixed default text and
\* answers 200.
C21_EnrichmentFailureNeverFails ==
    /\ DescFailureSameDecision
    /\ NotesFetchFailed =>
          /\ Cardinality(ResolutionCalls) = 1
          /\ \A i \in ResolutionCalls : cwCalls[i].text = <<"Resolved in PagerDuty">>
          /\ pd.pc = "done" => pd.resp = 200

\* C21 amended: as above, but the answer is 200 when the Resolution note call
\* succeeds and 500 when it fails.
C21_EnrichmentFailureDegrades ==
    /\ DescFailureSameDecision
    /\ NotesFetchFailed =>
          /\ Cardinality(ResolutionCalls) = 1
          /\ \A i \in ResolutionCalls : cwCalls[i].text = <<"Resolved in PagerDuty">>
          /\ pd.pc = "done" =>
                pd.resp = IF pd.failed = "addTicketNote" THEN 500 ELSE 200

\* a ticketing request whose description fetch failed has created its
\* incident without a note request and was answered 200, and an alerting
\* request whose notes fetch failed was answered 200
C21_Witness ==
    /\ \E r \in Requests :
          /\ req[r].kind = "webhook" /\ DescFailed(req[r])
          /\ req[r].pc = "done" /\ req[r].resp = 200
          /\ req[r].creates = 1 /\ req[r].noteReqs = 0
    /\ NotesFetchFailed /\ pd.pc = "done" /\ pd.resp = 200

\* the bucket C22 gives a lower-cased priority name
BucketCode(lowerName) ==
    CASE lowerName \in {"1a - emergency", "1b - emergency"} -> "P1"
      [] lowerName \in {"2a - critical", "2b - critical", "2c - critical"} -> "P2"
      [] lowerName = "3 - high" -> "P3"
      [] lowerName \in {"4a - normal", "4b - normal", "4c - normal"} -> "P4"
      [] OTHER -> "P5"

BucketUrgency(code) == IF code \in {"P1", "P2", "P3"} THEN "high" ELSE "low"

\* the create payload carries the code and the urgency of the ticket's bucket
PayloadOfBucket(payload, ticket) ==
    LET code == BucketCode(toLowerCase(ticket.priority)) IN
    /\ payload.title # <<>> /\ Head(payload.title) = code
    /\ payload.urgency = BucketUrgency(code)

\* C22: the lower-cased priority name maps to its fixed bucket (Emergency
\* P1, Critical P2, "3 - high" P3, Normal P4, any other name P5), urgency is
\* "high" exactly for P1..P3, and the bucket's code is the one in the title:
\* the admit-all variant builds its payload from the bucket of every
\* priority, the strict variant from the buckets P1..P3 and from no other.
C22_PriorityBuckets ==
    ci.pc = "done" =>
        /\ ci.admitAll.outcome = "create"
             => PayloadOfBucket(ci.admitAll.payload, ci.ticket)
        /\ ci.strict.outcome = "create"
             => /\ PayloadOfBucket(ci.strict.payload, ci.ticket)
                /\ BucketCode(toLowerCase(ci.ticket.priority)) \in {"P1", "P2", "P3"}
        /\ (ci.admitAll.outcome = "create" /\ ci.strict.outcome = "create")
             => ci.admitAll.payload = ci.strict.payload

\* an Alerts ticket of priority "4b - Normal": the admit-all variant builds
\* a P4 title with urgency low, the strict variant skips the ticket
C22_Witness ==
    /\ ci.pc = "done" /\ ci.ticket.priority = "4b - Normal"
    /\ ci.ticket.board = "Alerts"
    /\ ci.admitAll.outcome = "create"
    /\ Head(ci.admitAll.payload.title) = "P4"
    /\ ci.admitAll.payload.urgency = "low"
    /\ ci.strict.outcome = "null"

\* the ticket fails an admission filter of the strict variant
FailsFilter(ticket) ==
    \/ ticket.board = "Technical Support" /\ ~containsAllowed(ticket.summary)
    \/ BucketCode(toLowerCase(ticket.priority)) \notin {"P1", "P2", "P3"}

\* the createIncident call of the request got an empty re-check
EmptyRecheck(r) == r.recheck.st = "ok" /\ r.recheck.inc.id = 0

\* C23 as stated: a createIncident call (strict variant) for a ticket that
\* fails an admission filter returns null and submits neither a create nor
\* a note request.
C23_FilteredTicketReturnsNull ==
    \A r \in Requests :
        FailsFilter(req[r].ticket) =>
            /\ req[r].creates = 0 /\ req[r].noteReqs = 0
            /\ Returned(req[r]) => req[r].ret = "null"

\* C23 amended: such a call submits neither request; it returns null when
\* its re-check found no incident and the ticket's board is one of the three
\* mapped boards (it returns the incident the re-check found, and throws for
\* an unmapped board); a ticket of another
\* mapped board that lacks the keywords and has a P1..P3 priority is not
\* filtered.
C23_FilteredTicketSubmitsNothing ==
    \A r \in Requests :
        /\ FailsFilter(req[r].ticket) =>
              /\ req[r].creates = 0 /\ req[r].noteReqs = 0
              /\ Returned(req[r]) =>
                    req[r].ret = IF ~EmptyRecheck(req[r]) THEN "incident"
                                 ELSE IF req[r].ticket.board \in
                                           {"Technical Support",
                                            "Security Operations Center", "Alerts"}
                                   THEN "null"
                                 ELSE "throw"
        /\ ( /\ EmptyRecheck(req[r])
             /\ req[r].ticket.board \in {"Security Operations Center", "Alerts"}
             /\ ~FailsFilter(req[r].ticket) )
           => req[r].creates = 1

\* a Normal-priority Alerts ticket went through an empty re-check and its
\* createIncident call returned null with the guard released
C23_Witness ==
    \E r \in Requests :
        /\ Returned(req[r]) /\ req[r].ret = "null"
        /\ req[r].ticket.board = "Alerts"
        /\ toLowerCase(req[r].ticket.priority) = "4a - normal"
        /\ EmptyRecheck(req[r])
        /\ req[r].creates = 0 /\ req[r].noteReqs = 0
        /\ incidentKey(req[r].ticket) \notin incidentLock

\* the ticketing webhook of the request saw no incident in either lookup
\* nor in the re-check of its createIncident call
NoExistingIncident(r) ==
    /\ r.kind = "webhook"
    /\ FoundNothing(r.look1) /\ FoundNothing(r.look2) /\ EmptyRecheck(r)

\* C24: every create request carries the key "CW-" + id, the title
\* "<code> | #<id> - <summary>" and the urgency of the ticket's bucket; a
\* webhook for the New Technical Support ticket 42 with summary "Issue via
\* Critical outage" and priority "1a - Emergency" that sees no existing
\* incident submits exactly one create request, titled "P1 | #42 ...", with
\* urgency high and key CW-42.
C24_CreateRequestCarriesKeyTitleUrgency ==
    \A r \in Requests :
        LET t == req[r].ticket
            code == BucketCode(toLowerCase(t.priority)) IN
        /\ req[r].creates <= 1
        /\ req[r].creates = 1 =>
              /\ req[r].payload.incident_key = <<"CW-", t.id>>
              /\ req[r].payload.title =
                    <<code, "|", "#", t.id, "-">>
                       \o (IF t.summary = <<>> THEN <<"No", "summary">> ELSE t.summary)
              /\ req[r].payload.urgency = BucketUrgency(code)
        /\ ( /\ NoExistingIncident(req[r])
             /\ t.id = "42" /\ t.board = "Technical Support" /\ t.status = "New"
             /\ t.summary = <<"Issue", "via", "Critical", "outage">>
             /\ t.priority = "1a - Emergency" )
           => /\ req[r].creates = 1
              /\ SubSeq(req[r].payload.title, 1, 4) = <<"P1", "|", "#", "42">>
              /\ req[r].payload.urgency = "high"
              /\ req[r].payload.incident_key = <<"CW-", "42">>

\* the webhook for ticket 42 that saw no incident has had its create request
\* answered with a new incident of key CW-42
C24_Witness ==
    \E r \in Requests :
        /\ NoExistingIncident(req[r])
        /\ req[r].ticket.id = "42" /\ req[r].ticket.status = "New"
        /\ req[r].ticket.priority = "1a - Emergency"
        /\ req[r].creates = 1 /\ req[r].pc = "done" /\ req[r].ret = "incident"
        /\ \E i \in incidents : i.key = <<"CW-", "42">> /\ i.status = "triggered"

\* the alerting webhook made no remote call and no signature check
PdNothingDone ==
    /\ DeliveryCalls = <<>>
    /\ pd.patches = 0 /\ pd.notes = 0 /\ pd.fetches = 0
    /\ pd.secret = "" /\ ~pd.verified

\* the body parsed and carries event and event.data, and the event is not an
\* annotation
PdPlainEvent ==
    /\ pd.pc # "idle" /\ pd.ev.parse = "ok" /\ pd.ev.envelope
    /\ pd.ev.eventType # "incident.annotated"

\* C25: the early exits of the alerting handler make no remote call: a body
\* without the event / event.data envelope is answered 400; a non-annotation
\* event with no service id is answered 200 without a signature check; a
\* service that matches no configured service is answered 400 before the
\* signature check; a verified event whose title holds no ticket reference
\* is answered 200 with no patch and no note.
C25_EarlyExitsMakeNoCall ==
    /\ (pd.pc # "idle" /\ pd.ev.parse = "ok" /\ ~pd.ev.envelope)
          => pd.pc = "done" /\ pd.resp = 400 /\ PdNothingDone
    /\ (PdPlainEvent /\ pd.ev.serviceId = "")
          => pd.pc = "done" /\ pd.resp = 200 /\ PdNothingDone
    /\ ( /\ PdPlainEvent /\ pd.ev.serviceId # ""
         /\ pd.ev.serviceId \notin {PD_SERVICE_TS, PD_SERVICE_NOC, PD_SERVICE_SOC}
         /\ pd.ev.serviceName \notin {"Technical Support", "Alerts",
                                       "Security Operations Center"} )
          => pd.pc = "done" /\ pd.resp = 400 /\ PdNothingDone
    /\ (PdPlainEvent /\ pd.verified /\ ExtractTicketId(pd.ev.title) = "")
          => /\ pd.pc = "done" /\ pd.resp = 200
             /\ DeliveryCalls = <<>>
             /\ pd.patches = 0 /\ pd.notes = 0 /\ pd.fetches = 0

\* a resolved event of a configured service with a valid signature and a
\* title without ticket reference was answered 200 with no call
C25_Witness ==
    /\ PdPlainEvent /\ pd.verified
    /\ pd.ev.eventType = "incident.resolved"
    /\ pd.ev.title = TitleNoRef
    /\ pd.pc = "done" /\ pd.resp = 200 /\ DeliveryCalls = <<>>

\* a step that ends the wait of a call starts its re-check
WaitEndsInRecheck ==
    \A r \in Requests :
        (req[r].pc = "ci_wait" /\ req'[r] # req[r])
          => /\ req'[r].pc = "ci_recheck"
             /\ req'[r].rechecks = req[r].rechecks + 1
             /\ req'[r].waited = req[r].waited

\* C26: every createIncident call terminates when each remote call returns
\* or fails; a call that finds the guard held waits the fixed delay exactly
\* once and then goes on to the re-check whether or not the guard was
\* released: it never waits a second time and is never held back by the
\* guard.
C26_EveryCallTerminates ==
    /\ \A r \in Requests : InCreate(req[r]) ~> Returned(req[r])
    /\ [](\A r \in Requests :
            /\ req[r].waited <= 1
            /\ req[r].pc = "ci_wait" => ENABLED CI_WaitDone(r))
    /\ [][WaitEndsInRecheck]_vars

\* a call that waited once is in its re-check while the call that holds the
\* guard for the same key has not finished
C26_Witness ==
    \E r \in Requests : \E o \in Requests \ {r} :
        /\ req[r].pc = "ci_recheck" /\ req[r].waited = 1 /\ ~req[r].locked
        /\ InCreate(req[o]) /\ req[o].locked
        /\ incidentKey(req[o].ticket) = incidentKey(req[r].ticket)
        /\ incidentKey(req[r].ticket) \in incidentLock

\* the createIncident call of the request is between its re-check lookup and
\* the completion of its create request
InCritical(r) == r.pc \in {"ci_recheck", "ci_create"}

\* at most one call per key is between re-check and create completion
OneCallPerKey ==
    \A a \in Requests : \A b \in Requests \ {a} :
        (InCritical(req[a]) /\ InCritical(req[b]))
          => incidentKey(req[a].ticket) # incidentKey(req[b].ticket)

\* the key stays in the guard while the call that inserted it has not exited
KeyHeldUntilExit ==
    \A r \in Requests :
        (InCreate(req[r]) /\ req[r].locked)
          => incidentKey(req[r].ticket) \in incidentLock

\* C27: the guard gives mutual exclusion: per key at most one createIncident
\* call is between its re-check lookup and the completion of its create
\* request, and the key stays in incidentLock as long as the call that
\* inserted it has not exited.
C27_GuardMutualExclusion == OneCallPerKey /\ KeyHeldUntilExit

\* C28: every updateTicket / addTicketNote call of the alerting handler is
\* preceded, within the same webhook, by a successful signature
\* verification; no event type reaches a ticket write without it.
C28_WritesOnlyAfterVerification ==
    \A i \in pd.first .. Len(cwCalls) :
        cwCalls[i].op \in {"updateTicket", "addTicketNote"} => pd.verified

\* C29: for every ticket with a numeric id and every summary, also one that
\* contains "#" followed by digits, the reference the alerting handler reads
\* from the title createIncident built (the first "#" followed by digits) is
\* the ticket id.
C29_TitleRoundTrip ==
    ci.pc = "done" =>
        /\ ci.strict.outcome = "create" => ci.strict.ref = ci.ticket.id
        /\ ci.admitAll.outcome = "create" => ci.admitAll.ref = ci.ticket.id

\* a title was built for ticket 42 whose summary is "see #13" and the
\* reference read back from it is 42
C29_Witness ==
    /\ ci.pc = "done" /\ ci.ticket.id = "42"
    /\ ci.ticket.summary = <<"see", "#", "13">>
    /\ ci.strict.outcome = "create"
    /\ ci.strict.payload.title = <<"P1", "|", "#", "42", "-", "see", "#", "13">>
    /\ ci.strict.ref = "42"

====
